---- MODULE Spec2Model ----
(***************************************************************************)
(* The scaleway_instance_volume resource: Create, Read, Update and Delete  *)
(* of src/scaleway/resource_instance_volume.go, run against a remote       *)
(* instance API that holds one volume and that other parties (servers      *)
(* attaching and detaching, out-of-band deletion, outages) change between  *)
(* any two remote calls of an invocation.                                  *)
(***************************************************************************)
EXTENDS Integers, Sequences, FiniteSets, TLC

VARIABLES
    state,    \* d: the attributes of the resource as last stored (d.Id, d.Set)
    plan,     \* d: the configured (new) values of the running invocation
    remote,   \* the volume held by the instance API
    op,       \* the invocation that runs, or ran last
    pc,       \* the position of the invocation, "done" between invocations
    result,   \* the diagnostics returned by the last invocation
    calls,    \* the remote calls issued by the invocation, in order
    clock,    \* time spent in the retry loop of Delete, in retry intervals
    pre,      \* at invocation: the stored state, the remote name and size of
              \* an Update; whether a Delete follows a Delete that succeeded
    touched   \* a server was attached since the last GetVolume of Delete

vars == <<state, plan, remote, op, pc, result, calls, clock, pre, touched>>

----------------------------------------------------------------------------
\* Bounds of the model

\* the largest size_in_gb a configuration asks for
MaxSizeGb == 2

\* d.Timeout(schema.TimeoutDelete), in retry intervals
DeleteTimeout == 2

\* the largest size_in_gb the conversions are computed for
RoundTripRange == 64

Names == {"a", "b"}
Zones == {"nl-ams-1"}
RemoteIds == {"v1"}
Servers == {"s1"}
DefaultZone == "fr-par-1"
GeneratedName == "vol-gen"
Project == "p1"
Organization == "o1"

VolumeTypeBSSD == "b_ssd"
VolumeTypeLSSD == "l_ssd"
VolumeTypes == {VolumeTypeBSSD, VolumeTypeLSSD}

----------------------------------------------------------------------------
\* Sizes in bytes. A scw.Size is a uint64; it is held as hi * SizeBase + lo
\* so that the products stay within 32-bit integer arithmetic.

SizeBase == 1073741824

\* the provider's gigabyte, the factor of size_in_gb
gb == 1073741824

\* scw.GB, the divisor Read applies to the remote size
scwGB == 1073741824

NoSize == [hi |-> 0, lo |-> 0]

\* the conversion as it would be with a factor of one megabyte
SizeOfGbMega(n) == [hi |-> 0, lo |-> n * 1000000]

\* uint64(n) * gb
SizeOfGb(n) ==
    [hi |-> n * (gb \div SizeBase) + (n * (gb % SizeBase)) \div SizeBase,
     lo |-> (n * (gb % SizeBase)) % SizeBase]

\* int(size / scw.GB)
SizeInGb(size) ==
    size.hi * (SizeBase \div scwGB)
      + (size.hi * (SizeBase % scwGB) + size.lo) \div scwGB

----------------------------------------------------------------------------
\* Identifiers: "{zone}/{id}"

NoId == <<>>

newZonedIDString(zone, id) == <<zone, "/", id>>

parseZonedID(s) ==
    IF Len(s) = 3 /\ s[2] = "/"
    THEN [ok |-> TRUE, zone |-> s[1], id |-> s[3]]
    ELSE [ok |-> FALSE, zone |-> "", id |-> ""]

\* instanceAPIWithZone: the zone of the configuration, else the provider's
extractZone(z) == IF z = "" THEN DefaultZone ELSE z

\* expandOrGenerateString(name, "vol")
expandOrGenerateString(n) == IF n = "" THEN GeneratedName ELSE n

----------------------------------------------------------------------------
\* The resource data d

NoState ==
    [id |-> NoId, name |-> "", type |-> "", size_in_gb |-> 0, server_id |-> "",
     zone |-> "", project_id |-> "", organization_id |-> ""]

NoPlan ==
    [name |-> "", type |-> "", size_in_gb |-> 0, from_volume_id |-> "",
     from_snapshot_id |-> "", zone |-> ""]

NoVolume ==
    [exists |-> FALSE, id |-> "", zone |-> "", name |-> "", type |-> "",
     size |-> NoSize, server |-> ""]

\* d.HasChange(k), between the stored values and the configured ones
HasChange(old, new, k) == new[k] # old[k]

\* a remote call: what was sent and how it was answered
Call(o, z, i, carries, n, s, out, srv) ==
    [op |-> o, zone |-> z, id |-> i, carries |-> carries, name |-> n,
     size |-> s, outcome |-> out, server |-> srv]

Issued(o) == {k \in 1..Len(calls) : calls[k].op = o}

Snapshot ==
    [state |-> state, name |-> remote.name, size |-> remote.size,
     deleted |-> FALSE]

NoSnapshot == [state |-> NoState, name |-> "", size |-> NoSize, deleted |-> FALSE]

----------------------------------------------------------------------------
\* The instance API

Found(z, i) == remote.exists /\ remote.zone = z /\ remote.id = i

Faults == {TRUE, FALSE}

\* the answer to a call on volume i of zone z; `fault` is a failure of the
\* call itself (the network, the service, a timeout)
Answer(z, i, fault) ==
    IF fault THEN "error" ELSE IF ~Found(z, i) THEN "notfound" ELSE "ok"

Init ==
    /\ state = NoState
    /\ plan = NoPlan
    /\ remote = NoVolume
    /\ op = "None"
    /\ pc = "done"
    /\ result = "none"
    /\ calls = <<>>
    /\ clock = 0
    /\ pre = NoSnapshot
    /\ touched = FALSE

----------------------------------------------------------------------------
\* Read

\* Read as it would be if not-found dropped the whole record
RefreshDropping(d, a, zone, vol) ==
    IF a = "notfound" THEN NoState
    ELSE IF a = "error" THEN d
    ELSE [d EXCEPT !.name = vol.name,
                   !.organization_id = Organization,
                   !.project_id = Project,
                   !.zone = zone,
                   !.type = vol.type,
                   !.size_in_gb = SizeInGb(vol.size),
                   !.server_id = vol.server]

\* Read as it would be if every failure of GetVolume cleared the identifier
RefreshClearingOnError(d, a, zone, vol) ==
    IF a # "ok" THEN [d EXCEPT !.id = NoId]
    ELSE [d EXCEPT !.name = vol.name,
                   !.organization_id = Organization,
                   !.project_id = Project,
                   !.zone = zone,
                   !.type = vol.type,
                   !.size_in_gb = SizeInGb(vol.size),
                   !.server_id = vol.server]

\* lines 124-145: d after GetVolume answered a for the volume vol of zone
Refresh(d, a, zone, vol) ==
    IF a = "notfound" THEN [d EXCEPT !.id = NoId]
    ELSE IF a = "error" THEN d
    ELSE [d EXCEPT !.name = vol.name,
                   !.organization_id = Organization,
                   !.project_id = Project,
                   !.zone = zone,
                   !.type = vol.type,
                   !.size_in_gb = SizeInGb(vol.size),
                   !.server_id = vol.server]

\* lines 124-145: the diagnostics of Read
ReadResult(a) == IF a = "error" THEN "remote_error" ELSE "ok"

\* lines 120-145: GetVolume, then the identifier cleared or the attributes set
ReadVolume ==
    /\ pc = "read_get"
    /\ \E fault \in Faults :
       LET p == parseZonedID(state.id)
           a == Answer(p.zone, p.id, fault)
       IN /\ calls' = Append(calls,
                 Call("GetVolume", p.zone, p.id, "none", "", NoSize, a,
                      IF a = "ok" THEN remote.server ELSE ""))
          /\ state' = Refresh(state, a, p.zone, remote)
          /\ result' = ReadResult(a)
    /\ pc' = "done"
    /\ UNCHANGED <<plan, remote, op, clock, pre, touched>>

\* lines 114-118
ReadInvoke ==
    /\ pc = "done"
    /\ state.id # NoId
    /\ op' = "Read"
    /\ calls' = <<>>
    /\ plan' = NoPlan
    /\ pre' = NoSnapshot
    /\ IF parseZonedID(state.id).ok
       THEN pc' = "read_get" /\ result' = "none"
       ELSE pc' = "done" /\ result' = "parse_error"
    /\ clock' = 0
    /\ touched' = FALSE
    /\ UNCHANGED <<state, remote>>

----------------------------------------------------------------------------
\* Create

\* lines 78-102: a resource that does not exist yet has no stored state; the
\* request is built from the configuration
CreateInvoke ==
    /\ pc = "done"
    /\ state.id = NoId
    /\ \E n \in Names \cup {""}, t \in VolumeTypes, z \in Zones \cup {""},
          src \in {"none", "size", "volume", "snapshot"}, s \in 1..MaxSizeGb :
          plan' = [name |-> n, type |-> t, zone |-> z,
                   size_in_gb |-> IF src = "size" THEN s ELSE 0,
                   from_volume_id |-> IF src = "volume" THEN "base" ELSE "",
                   from_snapshot_id |-> IF src = "snapshot" THEN "snap" ELSE ""]
    /\ state' = [NoState EXCEPT !.name = plan'.name, !.type = plan'.type,
                                !.size_in_gb = plan'.size_in_gb, !.zone = plan'.zone]
    /\ op' = "Create"
    /\ pc' = "create_call"
    /\ result' = "none"
    /\ calls' = <<>>
    /\ pre' = NoSnapshot
    /\ clock' = 0
    /\ touched' = FALSE
    /\ UNCHANGED remote

\* Create as it would be if it stored the provider's zone
CreatedIdDefaultZone(zone, id) == newZonedIDString(DefaultZone, id)

\* line 109: the identifier stored after CreateVolume answered with id
CreatedId(zone, id) == newZonedIDString(zone, id)

\* lines 104-111: CreateVolume, then the identifier stored
CreateVolume ==
    /\ pc = "create_call"
    /\ \E fault \in Faults :
       LET zone == extractZone(plan.zone)
           hasSize == plan.size_in_gb # 0
           size == IF hasSize THEN SizeOfGb(plan.size_in_gb) ELSE NoSize
           name == expandOrGenerateString(plan.name)
           carries == IF hasSize THEN "size"
                      ELSE IF plan.from_volume_id # "" THEN "volume"
                      ELSE IF plan.from_snapshot_id # "" THEN "snapshot"
                      ELSE "none"
       IN IF fault
          THEN /\ calls' = Append(calls,
                      Call("CreateVolume", zone, "", carries,
                           name, size, "error", ""))
               /\ result' = "remote_error"
               /\ pc' = "done"
               /\ UNCHANGED <<state, remote>>
          ELSE \E rid \in RemoteIds, base \in 1..MaxSizeGb :
               /\ remote' = [exists |-> TRUE, id |-> rid, zone |-> zone,
                             name |-> name, type |-> plan.type,
                             size |-> IF hasSize THEN size ELSE SizeOfGb(base),
                             server |-> ""]
               /\ calls' = Append(calls,
                      Call("CreateVolume", zone, rid, carries,
                           name, size, "ok", ""))
               /\ state' = [state EXCEPT !.id = CreatedId(zone, rid)]
               /\ pc' = "read_get"
               /\ result' = "none"
    /\ UNCHANGED <<plan, op, clock, pre, touched>>

----------------------------------------------------------------------------
\* Update

\* lines 167-173: what follows the rename, decided by the change of size_in_gb
SizeGate(old, new) ==
    IF ~HasChange(old, new, "size_in_gb")
    THEN [pc |-> "read_get", result |-> "none"]
    ELSE IF new.type # VolumeTypeBSSD
    THEN [pc |-> "done", result |-> "validation_error"]
    ELSE IF old.size_in_gb > new.size_in_gb
    THEN [pc |-> "done", result |-> "validation_error"]
    ELSE [pc |-> "upd_wait1", result |-> "none"]

\* Update as it would be if the rename were the alternative of the resize
FirstStepEither(old, new) ==
    IF HasChange(old, new, "size_in_gb") THEN SizeGate(old, new)
    ELSE IF HasChange(old, new, "name")
    THEN [pc |-> "upd_rename", result |-> "none"]
    ELSE SizeGate(old, new)

\* lines 148-154: the first step of Update, decided by the change of name
FirstStep(old, new) ==
    IF HasChange(old, new, "name")
    THEN [pc |-> "upd_rename", result |-> "none"]
    ELSE SizeGate(old, new)

\* lines 148-154: type and zone force a new resource, so Update sees them as stored
UpdateInvoke ==
    /\ pc = "done"
    /\ state.id # NoId
    /\ \E n \in Names \cup {state.name}, s \in 0..MaxSizeGb :
          plan' = [name |-> n, type |-> state.type, zone |-> state.zone,
                   size_in_gb |-> s, from_volume_id |-> "", from_snapshot_id |-> ""]
    /\ op' = "Update"
    /\ calls' = <<>>
    /\ pre' = Snapshot
    /\ IF parseZonedID(state.id).ok
       THEN /\ pc' = FirstStep(state, plan').pc
            /\ result' = FirstStep(state, plan').result
       ELSE pc' = "done" /\ result' = "parse_error"
    /\ clock' = 0
    /\ touched' = FALSE
    /\ UNCHANGED <<state, remote>>

\* lines 155-165: UpdateVolume with the name
UpdateRename ==
    /\ pc = "upd_rename"
    /\ \E fault \in Faults :
       LET p == parseZonedID(state.id)
           a == Answer(p.zone, p.id, fault)
       IN /\ calls' = Append(calls,
                 Call("UpdateVolume", p.zone, p.id, "name", plan.name, NoSize, a, ""))
          /\ IF a = "ok"
             THEN /\ remote' = [remote EXCEPT !.name = plan.name]
                  /\ pc' = SizeGate(state, plan).pc
                  /\ result' = SizeGate(state, plan).result
             ELSE /\ remote' = remote
                  /\ pc' = "done"
                  /\ result' = "remote_error"
    /\ UNCHANGED <<state, plan, op, clock, pre, touched>>

\* lines 174-181 and 192-199: WaitForVolume, then the step `next`
WaitForVolume(at, next) ==
    /\ pc = at
    /\ \E fault \in Faults :
       LET p == parseZonedID(state.id)
           a == Answer(p.zone, p.id, fault)
       IN /\ calls' = Append(calls,
                 Call("WaitForVolume", p.zone, p.id, "none", "", NoSize, a, ""))
          /\ IF a = "ok"
             THEN pc' = next /\ result' = "none"
             ELSE pc' = "done" /\ result' = "remote_error"
    /\ UNCHANGED <<state, plan, remote, op, clock, pre, touched>>

UpdateWaitBefore == WaitForVolume("upd_wait1", "upd_resize")

\* Update as it would be if the error of the second wait were dropped
UpdateWaitAfterIgnoringError ==
    /\ pc = "upd_wait2"
    /\ \E fault \in Faults :
       LET p == parseZonedID(state.id)
           a == Answer(p.zone, p.id, fault)
       IN calls' = Append(calls,
              Call("WaitForVolume", p.zone, p.id, "none", "", NoSize, a, ""))
    /\ pc' = "read_get"
    /\ result' = "none"
    /\ UNCHANGED <<state, plan, remote, op, clock, pre, touched>>

UpdateWaitAfter == WaitForVolume("upd_wait2", "read_get")

\* lines 183-191: UpdateVolume with the size
UpdateResize ==
    /\ pc = "upd_resize"
    /\ \E fault \in Faults :
       LET p == parseZonedID(state.id)
           a == Answer(p.zone, p.id, fault)
           size == SizeOfGb(plan.size_in_gb)
       IN /\ calls' = Append(calls,
                 Call("UpdateVolume", p.zone, p.id, "size", "", size, a, ""))
          /\ IF a = "ok"
             THEN /\ remote' = [remote EXCEPT !.size = size]
                  /\ pc' = "upd_wait2"
                  /\ result' = "none"
             ELSE /\ remote' = remote
                  /\ pc' = "done"
                  /\ result' = "remote_error"
    /\ UNCHANGED <<state, plan, op, clock, pre, touched>>

----------------------------------------------------------------------------
\* Delete

\* lines 205-211
DeleteInvoke ==
    /\ pc = "done"
    /\ state.id # NoId
    /\ op' = "Delete"
    /\ calls' = <<>>
    /\ plan' = NoPlan
    /\ pre' = [NoSnapshot EXCEPT !.deleted = (op = "Delete" /\ result = "ok")]
    /\ clock' = 0
    /\ touched' = FALSE
    /\ IF parseZonedID(state.id).ok
       THEN pc' = "del_get" /\ result' = "none"
       ELSE pc' = "done" /\ result' = "parse_error"
    /\ UNCHANGED <<state, remote>>

\* Delete as it would be without the test of volumeResp.Volume.Server
AfterCheckIgnoringServer(a, server) ==
    IF a = "notfound" THEN [pc |-> "done", result |-> "ok"]
    ELSE IF a = "error" THEN [pc |-> "done", result |-> "remote_error"]
    ELSE [pc |-> "del_delete", result |-> "none"]

\* Delete as it would be without the test of is404Error
AfterCheckNotFoundFatal(a, server) ==
    IF a # "ok" THEN [pc |-> "done", result |-> "remote_error"]
    ELSE IF server # "" THEN [pc |-> "del_retry", result |-> "none"]
    ELSE [pc |-> "del_delete", result |-> "none"]

\* Delete as it would be if a failure of GetVolume were retryable
AfterCheckRetryingErrors(a, server) ==
    IF a = "notfound" THEN [pc |-> "done", result |-> "ok"]
    ELSE IF a = "error" THEN [pc |-> "del_retry", result |-> "none"]
    ELSE IF server # "" THEN [pc |-> "del_retry", result |-> "none"]
    ELSE [pc |-> "del_delete", result |-> "none"]

\* lines 216-225: what the retried function does with the answer of GetVolume
AfterCheck(a, server) ==
    IF a = "notfound" THEN [pc |-> "done", result |-> "ok"]
    ELSE IF a = "error" THEN [pc |-> "done", result |-> "remote_error"]
    ELSE IF server # "" THEN [pc |-> "del_retry", result |-> "none"]
    ELSE [pc |-> "del_delete", result |-> "none"]

\* lines 212-225: GetVolume in the retried function
DeleteCheck ==
    /\ pc = "del_get"
    /\ \E fault \in Faults :
       LET p == parseZonedID(state.id)
           a == Answer(p.zone, p.id, fault)
           srv == IF a = "ok" THEN remote.server ELSE ""
       IN /\ calls' = Append(calls,
                 Call("GetVolume", p.zone, p.id, "none", "", NoSize, a, srv))
          /\ pc' = AfterCheck(a, srv).pc
          /\ result' = AfterCheck(a, srv).result
    /\ touched' = FALSE
    /\ UNCHANGED <<state, plan, remote, op, clock, pre>>

\* lines 233-236: what the retried function does with the answer of DeleteVolume
AfterDelete(a) == IF a = "ok" THEN "ok" ELSE "remote_error"

\* Delete as it would be if a failure of DeleteVolume were retryable
DeleteVolumeRetryable ==
    /\ pc = "del_delete"
    /\ \E fault \in Faults :
       LET p == parseZonedID(state.id)
           f == Answer(p.zone, p.id, fault)
           a == IF f = "ok" /\ remote.server # "" THEN "error" ELSE f
       IN /\ calls' = Append(calls,
                 Call("DeleteVolume", p.zone, p.id, "none", "", NoSize, a, ""))
          /\ remote' = IF a = "ok" THEN [remote EXCEPT !.exists = FALSE] ELSE remote
          /\ result' = IF a = "ok" THEN "ok" ELSE "none"
          /\ pc' = IF a = "ok" THEN "done" ELSE "del_retry"
    /\ UNCHANGED <<state, plan, op, clock, pre, touched>>

\* lines 227-236: DeleteVolume in the retried function; the instance API
\* refuses to delete a volume that a server holds
DeleteVolume ==
    /\ pc = "del_delete"
    /\ \E fault \in Faults :
       LET p == parseZonedID(state.id)
           f == Answer(p.zone, p.id, fault)
           a == IF f = "ok" /\ remote.server # "" THEN "error" ELSE f
       IN /\ calls' = Append(calls,
                 Call("DeleteVolume", p.zone, p.id, "none", "", NoSize, a, ""))
          /\ remote' = IF a = "ok" THEN [remote EXCEPT !.exists = FALSE] ELSE remote
          /\ result' = AfterDelete(a)
    /\ pc' = "done"
    /\ UNCHANGED <<state, plan, op, clock, pre, touched>>

\* Delete as it would be if a retryable error were returned at once
DeleteRetryNever ==
    /\ pc = "del_retry"
    /\ clock' = clock + 1
    /\ pc' = "done"
    /\ result' = "timeout_error"
    /\ UNCHANGED <<state, plan, remote, op, calls, pre, touched>>

\* Delete as it would be if the retry loop had no deadline
DeleteRetryForever ==
    /\ pc = "del_retry"
    /\ clock' = 0
    /\ pc' = "del_get"
    /\ result' = "none"
    /\ UNCHANGED <<state, plan, remote, op, calls, pre, touched>>

\* lines 211, 224 and 238-240: a retryable error waits one interval and runs
\* the function again, until the timeout of Delete is spent
DeleteRetry ==
    /\ pc = "del_retry"
    /\ clock' = clock + 1
    /\ IF clock + 1 < DeleteTimeout
       THEN pc' = "del_get" /\ result' = "none"
       ELSE pc' = "done" /\ result' = "timeout_error"
    /\ UNCHANGED <<state, plan, remote, op, calls, pre, touched>>

----------------------------------------------------------------------------
\* The other parties of the instance API

Attach ==
    /\ remote.exists /\ remote.server = ""
    /\ \E s \in Servers : remote' = [remote EXCEPT !.server = s]
    /\ touched' = (pc = "del_delete")
    /\ UNCHANGED <<state, plan, op, pc, result, calls, clock, pre>>

Detach ==
    /\ remote.exists /\ remote.server # ""
    /\ remote' = [remote EXCEPT !.server = ""]
    /\ UNCHANGED <<state, plan, op, pc, result, calls, clock, pre, touched>>

\* the volume is deleted out of band
Vanish ==
    /\ remote.exists /\ remote.server = ""
    /\ remote' = [remote EXCEPT !.exists = FALSE]
    /\ UNCHANGED <<state, plan, op, pc, result, calls, clock, pre, touched>>

----------------------------------------------------------------------------

Next ==
    \/ CreateInvoke
    \/ CreateVolume
    \/ ReadInvoke
    \/ ReadVolume
    \/ UpdateInvoke
    \/ UpdateRename
    \/ UpdateWaitBefore
    \/ UpdateResize
    \/ UpdateWaitAfter
    \/ DeleteInvoke
    \/ DeleteCheck
    \/ DeleteVolume
    \/ DeleteRetry
    \/ Attach
    \/ Detach
    \/ Vanish

Spec == Init /\ [][Next]_vars

\* a running invocation goes on: every remote call returns and the retry loop
\* of Delete wakes up after its interval
FairSpec ==
    /\ Spec
    /\ WF_vars(DeleteCheck)
    /\ WF_vars(DeleteVolume)
    /\ WF_vars(DeleteRetry)

----------------------------------------------------------------------------
\* Properties

Last(s) == s[Len(s)]

\* the step issues the remote call o
Issues(o) == Len(calls') = Len(calls) + 1 /\ Last(calls').op = o

\* every remote call of the invocation was answered without an error
AllAnswered == \A k \in 1..Len(calls) : calls[k].outcome = "ok"

SizeRequests == {k \in Issued("UpdateVolume") : calls[k].carries = "size"}

\* C1 (as claimed): whenever Delete issues DeleteVolume, the remote volume has
\* no attached server at that moment, whatever the remote system did between
\* the GetVolume check and the call.
C1_DetachedAtDelete ==
    [][(op = "Delete" /\ Issues("DeleteVolume")) => remote.server = ""]_vars

\* C1 (amended): whenever Delete issues DeleteVolume, the GetVolume check just
\* before it found the volume with no attached server, and the volume has no
\* attached server at the moment of the call unless the remote system attached
\* it after that check.
C1_DetachedAtCheck ==
    [][(op = "Delete" /\ Issues("DeleteVolume")) =>
          /\ calls # <<>>
          /\ Last(calls).op = "GetVolume"
          /\ Last(calls).outcome = "ok"
          /\ Last(calls).server = ""
          /\ (~touched => remote.server = "")]_vars

\* Delete found the volume attached, checked again and deleted it
C1_Witness ==
    /\ op = "Delete" /\ pc = "done" /\ result = "ok"
    /\ Len(calls) >= 3
    /\ calls[1].server # ""
    /\ Last(calls).op = "DeleteVolume"
    /\ ~touched

\* C2 (as claimed): an Update whose new size_in_gb is smaller than the old one
\* returns a validation error and issues no remote call, whatever else changed.
C2_DownsizeIssuesNoCall ==
    (op = "Update" /\ pc = "done" /\ plan.size_in_gb < pre.state.size_in_gb)
        => (result = "validation_error" /\ calls = <<>>)

\* Delete issued DeleteVolume and returned success
Deleted ==
    /\ op = "Delete" /\ pc = "done" /\ result = "ok"
    /\ calls # <<>> /\ Last(calls).op = "DeleteVolume"

\* C3 (as claimed): once a running Delete, its deadline not elapsed, has the
\* volume detached, and the volume stays detached and no remote call fails,
\* Delete issues DeleteVolume and returns success.
C3_DetachedBeforeDeadline ==
    (op = "Delete" /\ pc \in {"del_get", "del_retry"} /\ clock < DeleteTimeout
       /\ remote.server = "" /\ AllAnswered)
        ~> (Deleted \/ remote.server # "" \/ ~AllAnswered)

\* C3 (amended): once Delete is about to make a GetVolume check, which it does
\* only before the deadline elapses, of a volume that is detached and stays
\* detached, and no remote call fails, Delete issues DeleteVolume and returns
\* success; while GetVolume reports an attached server and the deadline has
\* not elapsed, Delete does not return and checks again.
C3_DetachedAtACheck ==
    /\ (op = "Delete" /\ pc = "del_get" /\ remote.server = "" /\ AllAnswered)
          ~> (Deleted \/ remote.server # "" \/ ~AllAnswered)
    /\ [][/\ (op = "Delete" /\ Issues("GetVolume") /\ Last(calls').outcome = "ok"
                /\ Last(calls').server # "")
             => (pc' = "del_retry" /\ result' = "none")
          /\ (op = "Delete" /\ pc = "del_retry" /\ clock + 1 < DeleteTimeout)
             => (pc' \in {"del_retry", "del_get"} /\ result' = "none")]_vars
    /\ (op = "Delete" /\ pc = "del_retry" /\ clock + 1 < DeleteTimeout)
          ~> (op = "Delete" /\ pc = "del_get")

\* Delete was invoked on an attached volume, which was detached before the
\* deadline, and deleted it
C3_Witness ==
    /\ op = "Delete" /\ pc = "done" /\ result = "ok"
    /\ AllAnswered
    /\ calls[1].op = "GetVolume" /\ calls[1].server # ""
    /\ Last(calls).op = "DeleteVolume"
    /\ clock >= 1

\* every GetVolume of the invocation found the volume attached to a server
AlwaysAttached ==
    \A k \in Issued("GetVolume") : calls[k].outcome = "ok" /\ calls[k].server # ""

\* C4: a Delete whose every GetVolume up to the deadline reports the volume
\* attached ends, with a timeout error and without a DeleteVolume call.
C4_TimesOutWhileAttached ==
    /\ [](op = "Delete" /\ AlwaysAttached =>
             /\ Issued("DeleteVolume") = {}
             /\ Len(calls) <= DeleteTimeout
             /\ pc = "done" => (result = "timeout_error" /\ Len(calls) = DeleteTimeout))
    /\ (op = "Delete" /\ pc # "done") ~> (pc = "done")

C4_Witness ==
    /\ op = "Delete" /\ pc = "done" /\ result = "timeout_error"
    /\ AlwaysAttached
    /\ Len(calls) = DeleteTimeout
    /\ remote.server # ""

\* the first wait for a stable volume of the invocation failed
FirstWaitFailed ==
    /\ Issued("WaitForVolume") # {}
    /\ \A k \in Issued("WaitForVolume") : calls[k].outcome # "ok"

\* C5 (as claimed): an Update that changes size_in_gb and whose first wait for
\* a stable volume fails returns an error, has issued no resize request, and
\* leaves the stored state and the remote name and size as they were before.
C5_FailedWaitChangesNothing ==
    (op = "Update" /\ pc = "done" /\ plan.size_in_gb # pre.state.size_in_gb
       /\ FirstWaitFailed)
        => /\ result \notin {"ok", "none"}
           /\ SizeRequests = {}
           /\ state = pre.state
           /\ remote.name = pre.name
           /\ remote.size = pre.size

\* C6: a Read whose GetVolume reports not-found clears the identifier, returns
\* no error and changes no other attribute; a Read whose GetVolume fails in
\* any other way returns an error and changes neither the identifier nor any
\* attribute.
C6_ReadNotFoundClearsId ==
    [][Issues("GetVolume") /\ pc = "read_get" =>
          /\ Last(calls').outcome = "notfound" =>
                /\ result' = "ok"
                /\ state'.id = NoId
                /\ state' = [state EXCEPT !.id = NoId]
          /\ Last(calls').outcome = "error" =>
                /\ result' \notin {"ok", "none"}
                /\ state' = state]_vars

\* a Read found the volume gone and kept the attributes it had stored
C6_Witness ==
    /\ op = "Read" /\ pc = "done" /\ result = "ok"
    /\ Last(calls).outcome = "notfound"
    /\ state.id = NoId
    /\ state.name # "" /\ state.project_id # "" /\ state.size_in_gb > 0

\* C7 (as claimed): a Delete that received not-found from any of its remote
\* calls, GetVolume or DeleteVolume, returns success.
C7_NotFoundIsSuccess ==
    (op = "Delete" /\ pc = "done"
       /\ \E k \in 1..Len(calls) : calls[k].outcome = "notfound")
        => result = "ok"

\* C8: when the GetVolume of a retry iteration of Delete reports not-found,
\* Delete stops there with success and neither has issued nor issues a
\* DeleteVolume; a Delete that follows a successful Delete, its calls
\* answered, returns success without a DeleteVolume call.
C8_DeleteIdempotent ==
    /\ (op = "Delete" /\ \E k \in Issued("GetVolume") : calls[k].outcome = "notfound")
          => /\ pc = "done"
             /\ result = "ok"
             /\ Last(calls).op = "GetVolume" /\ Last(calls).outcome = "notfound"
             /\ Issued("DeleteVolume") = {}
    /\ (op = "Delete" /\ pc = "done" /\ pre.deleted
          /\ \A k \in 1..Len(calls) : calls[k].outcome # "error")
          => /\ result = "ok"
             /\ Issued("DeleteVolume") = {}
             /\ Len(calls) = 1

\* the second of two Deletes found the volume gone
C8_Witness ==
    /\ op = "Delete" /\ pc = "done" /\ result = "ok"
    /\ pre.deleted
    /\ Len(calls) = 1 /\ calls[1].outcome = "notfound"

\* C9 (as claimed): an Update that changes size_in_gb of a volume that is not
\* block storage returns a validation error and issues neither a
\* WaitForVolume nor a resize request.
C9_ResizeOfLocalVolumeRejected ==
    (op = "Update" /\ pc = "done" /\ plan.size_in_gb # pre.state.size_in_gb
       /\ pre.state.type # VolumeTypeBSSD)
        => /\ result = "validation_error"
           /\ Issued("WaitForVolume") = {}
           /\ SizeRequests = {}

\* C10: when CreateVolume succeeds, Create stores the identifier made of the
\* zone of the request and the id of the answer, then reads the volume of that
\* identifier, and the state has the type of the request and, the volume read,
\* the zone of the request; when CreateVolume fails, Create returns an error,
\* stores no identifier and issues no GetVolume.
C10_CreateStoresZonedId ==
    (op = "Create" /\ calls # <<>>) =>
        /\ calls[1].op = "CreateVolume"
        /\ calls[1].zone = extractZone(plan.zone)
        /\ calls[1].zone \in Zones \cup {DefaultZone}
        /\ calls[1].outcome = "ok" =>
              /\ pc = "read_get" =>
                    /\ Len(calls) = 1
                    /\ state.id = <<calls[1].zone, "/", calls[1].id>>
              /\ pc = "done" =>
                    /\ Len(calls) = 2
                    /\ calls[2].op = "GetVolume"
                    /\ calls[2].zone = calls[1].zone
                    /\ calls[2].id = calls[1].id
                    /\ state.type = plan.type
                    /\ calls[2].outcome = "ok" =>
                          /\ result = "ok"
                          /\ state.id = <<calls[1].zone, "/", calls[1].id>>
                          /\ state.zone = calls[1].zone
        /\ calls[1].outcome # "ok" =>
              /\ pc = "done"
              /\ result = "remote_error"
              /\ state.id = NoId
              /\ Len(calls) = 1

\* a volume created in a zone other than the provider's and read back
C10_Witness ==
    /\ op = "Create" /\ pc = "done" /\ result = "ok"
    /\ Len(calls) = 2 /\ calls[2].outcome = "ok"
    /\ plan.zone # "" /\ plan.zone # DefaultZone
    /\ state.zone = plan.zone
    /\ state.type = plan.type
    /\ state.id # NoId

\* the byte size n * 2^30
GiB(n) == [hi |-> n, lo |-> 0]

\* C11: for every size_in_gb = n >= 1 of the range, Create transmits
\* n * 2^30 bytes and, the remote system storing that size unchanged, the Read
\* that follows reports size_in_gb = n, Read dividing by one gigabyte and
\* rounding down; the same holds for the size of an Update resize and the Read
\* that ends it.
C11_SizeRoundTrip ==
    /\ SizeBase = 1073741824
    /\ \A n \in 1..RoundTripRange :
          /\ SizeOfGb(n) = GiB(n)
          /\ SizeInGb(SizeOfGb(n)) = n
          /\ SizeInGb([hi |-> n, lo |-> SizeBase - 1]) = n
    /\ (op = "Create" /\ calls # <<>> /\ plan.size_in_gb >= 1) =>
          /\ calls[1].carries = "size"
          /\ calls[1].size = GiB(plan.size_in_gb)
          /\ (pc = "done" /\ Len(calls) = 2 /\ calls[2].outcome = "ok"
                /\ remote.size = calls[1].size)
                => state.size_in_gb = plan.size_in_gb
    /\ (op = "Update" /\ SizeRequests # {}) =>
          /\ plan.size_in_gb >= 1
          /\ \A k \in SizeRequests : calls[k].size = GiB(plan.size_in_gb)
          /\ (pc = "done" /\ Last(calls).op = "GetVolume" /\ Last(calls).outcome = "ok"
                /\ remote.size = GiB(plan.size_in_gb))
                => state.size_in_gb = plan.size_in_gb

\* a volume resized to the largest size and read back
C11_Witness ==
    /\ op = "Update" /\ pc = "done" /\ result = "ok"
    /\ SizeRequests # {}
    /\ Last(calls).op = "GetVolume" /\ Last(calls).outcome = "ok"
    /\ plan.size_in_gb = MaxSizeGb
    /\ state.size_in_gb = MaxSizeGb
    /\ pre.state.size_in_gb < MaxSizeGb

\* C12: an identifier once assigned is never changed to another non-empty
\* value: the only change made to it is clearing it, by a Read (alone or at
\* the end of Create or Update) whose GetVolume reported not-found; no step of
\* Delete changes it.
C12_IdOnlyClearedByRead ==
    [][/\ (state.id # NoId /\ state'.id # state.id) =>
             /\ state'.id = NoId
             /\ pc = "read_get"
             /\ op \in {"Create", "Read", "Update"}
             /\ Issues("GetVolume")
             /\ Last(calls').outcome = "notfound"
       /\ (op' = "Delete") => state'.id = state.id]_vars

\* the Read that ends an Update found the volume gone and cleared the identifier
C12_Witness ==
    /\ op = "Update" /\ pc = "done"
    /\ Len(calls) >= 2
    /\ Last(calls).op = "GetVolume" /\ Last(calls).outcome = "notfound"
    /\ pre.state.id # NoId
    /\ state.id = NoId

\* the number of calls that precede the resize: the rename, if name changed
RenameCalls == IF plan.name # pre.state.name THEN 1 ELSE 0

\* C13: a successful Update that changes size_in_gb of a block volume issues,
\* for the resize, exactly one WaitForVolume, then one UpdateVolume with the
\* new size in bytes, then one WaitForVolume, then the GetVolume of Read, in
\* that order; Update returns success for a resize only if the second
\* WaitForVolume succeeded after the resize request.
C13_ResizeOrder ==
    /\ (op = "Update" /\ pc = "done" /\ result = "ok"
          /\ plan.size_in_gb # pre.state.size_in_gb) =>
          /\ pre.state.type = VolumeTypeBSSD
          /\ plan.size_in_gb > pre.state.size_in_gb
          /\ Len(calls) = RenameCalls + 4
          /\ RenameCalls = 1 => (calls[1].op = "UpdateVolume" /\ calls[1].carries = "name")
          /\ calls[RenameCalls + 1].op = "WaitForVolume"
          /\ calls[RenameCalls + 1].outcome = "ok"
          /\ calls[RenameCalls + 2].op = "UpdateVolume"
          /\ calls[RenameCalls + 2].carries = "size"
          /\ calls[RenameCalls + 2].size = GiB(plan.size_in_gb)
          /\ calls[RenameCalls + 2].outcome = "ok"
          /\ calls[RenameCalls + 3].op = "WaitForVolume"
          /\ calls[RenameCalls + 3].outcome = "ok"
          /\ calls[RenameCalls + 4].op = "GetVolume"
    /\ (op = "Update" /\ pc = "done" /\ result = "ok" /\ SizeRequests # {}) =>
          \A k \in SizeRequests :
             \E w \in Issued("WaitForVolume") : w > k /\ calls[w].outcome = "ok"

\* a rename and a resize, applied and read back
C13_Witness ==
    /\ op = "Update" /\ pc = "done" /\ result = "ok"
    /\ RenameCalls = 1
    /\ Len(calls) = 5
    /\ calls[5].outcome = "ok"
    /\ plan.size_in_gb > pre.state.size_in_gb
    /\ state.size_in_gb = plan.size_in_gb

\* C14: one Delete issues DeleteVolume at most once, as its last call, right
\* after a GetVolume that succeeded and reported no attached server; a
\* GetVolume that reported an attached server, reported not-found or failed is
\* never followed by DeleteVolume in its iteration.
C14_DeleteVolumeOnceAfterCleanCheck ==
    op = "Delete" =>
        /\ Cardinality(Issued("DeleteVolume")) <= 1
        /\ \A k \in Issued("DeleteVolume") :
              /\ k = Len(calls)
              /\ k > 1
              /\ calls[k - 1].op = "GetVolume"
              /\ calls[k - 1].outcome = "ok"
              /\ calls[k - 1].server = ""
        /\ \A k \in Issued("GetVolume") :
              (calls[k].outcome # "ok" \/ calls[k].server # "") =>
                 /\ k < Len(calls) => calls[k + 1].op = "GetVolume"
                 /\ k = Len(calls) => pc # "del_delete"

\* DeleteVolume failed after a check that had followed a retry
C14_Witness ==
    /\ op = "Delete" /\ pc = "done" /\ result = "remote_error"
    /\ Len(calls) = 3
    /\ calls[1].server # ""
    /\ calls[2].op = "GetVolume" /\ calls[2].server = ""
    /\ calls[3].op = "DeleteVolume" /\ calls[3].outcome = "error"

\* the call k failed with an error other than the not-found of a GetVolume
Fatal(k) ==
    /\ calls[k].outcome # "ok"
    /\ ~(calls[k].op = "GetVolume" /\ calls[k].outcome = "notfound")

\* C15: in Create, Update and Delete, a remote call that fails with an error
\* other than the not-found of a GetVolume is the last call of the invocation,
\* which returns an error; in Delete a failure of GetVolume other than
\* not-found and any failure of DeleteVolume end the retry loop at once,
\* whatever is left of the deadline.
C15_FatalErrorsEndTheInvocation ==
    op \in {"Create", "Update", "Delete"} =>
        \A k \in 1..Len(calls) :
           Fatal(k) =>
              /\ k = Len(calls)
              /\ pc = "done"
              /\ result \notin {"ok", "none", "timeout_error"}

\* the second check of a Delete failed and ended it before the deadline
C15_Witness ==
    /\ op = "Delete" /\ pc = "done" /\ result = "remote_error"
    /\ Len(calls) = 2
    /\ calls[1].outcome = "ok" /\ calls[1].server # ""
    /\ calls[2].op = "GetVolume" /\ calls[2].outcome = "error"
    /\ clock < DeleteTimeout

NameRequests == {k \in Issued("UpdateVolume") : calls[k].carries = "name"}

\* C16: a finished Update has issued exactly one UpdateVolume with the name if
\* name changed and none otherwise; that request carries no size and the
\* resize request no name; an Update that changes only name issues no
\* WaitForVolume and leaves the remote size as it was, and an Update that
\* changes only size leaves the remote name as it was.
C16_RenameIndependentOfResize ==
    op = "Update" =>
        /\ pc = "done" =>
              Cardinality(NameRequests) = (IF plan.name # pre.state.name THEN 1 ELSE 0)
        /\ Cardinality(NameRequests) <= 1
        /\ Issued("UpdateVolume") = NameRequests \cup SizeRequests
        /\ \A k \in NameRequests :
              /\ calls[k].name = plan.name
              /\ calls[k].size = NoSize
              /\ k = 1
        /\ \A k \in SizeRequests :
              /\ calls[k].name = ""
              /\ calls[k].size # NoSize
        /\ (plan.name # pre.state.name /\ plan.size_in_gb = pre.state.size_in_gb) =>
              /\ Issued("WaitForVolume") = {}
              /\ SizeRequests = {}
              /\ remote.size = pre.size
        /\ (plan.name = pre.state.name /\ plan.size_in_gb # pre.state.size_in_gb) =>
              /\ NameRequests = {}
              /\ remote.name = pre.name

\* an Update that changed the name alone
C16_Witness ==
    /\ op = "Update" /\ pc = "done" /\ result = "ok"
    /\ plan.name # pre.state.name
    /\ plan.size_in_gb = pre.state.size_in_gb
    /\ Len(calls) = 2
    /\ calls[1].carries = "name" /\ calls[1].outcome = "ok"
    /\ calls[2].outcome = "ok"
    /\ remote.name = plan.name /\ remote.name # pre.name
    /\ remote.size = pre.size

\* C17 (as claimed): whenever Create or Update returns without an error, the
\* identifier of the state is not empty, also when the remote volume
\* disappears between the mutation call and the Read that ends the operation.
C17_SuccessKeepsId ==
    (op \in {"Create", "Update"} /\ pc = "done" /\ result = "ok")
        => state.id # NoId

====
